---- MODULE Spec2Model ----
(***************************************************************************)
(* The must-use-result rule of deno-lint-plugin-neverthrow.                *)
(*                                                                         *)
(* The host walks the syntax tree of one compilation unit in document      *)
(* order and calls the rule's visitor for every node it enters.  The model *)
(* keeps the path from the Program root to the node being visited (every   *)
(* walk of the rule only follows parent links), the ImportTracker's set    *)
(* and the diagnostics reported so far.  A node is drawn when the          *)
(* traversal enters it, so the behaviours of the model are the traversals  *)
(* of all trees within the bounds.  Leaves for which the rule registers no *)
(* visitor and that no walk can meet (identifiers, literals) are folded    *)
(* into their parent: the callee of a call and the property of a member    *)
(* access are the field `sub` of that node.                                *)
(*                                                                         *)
(* Identifier names are sequences of one-character strings, so that        *)
(* toLowerCase and includes are computed and not assumed.                  *)
(***************************************************************************)
EXTENDS Integers, Sequences, FiniteSets, TLC

VARIABLES
    family,     \* the family of trees the unit is drawn from (fixed for a unit)
    path,       \* nodes from the Program root (path[1]) to the node being visited
    registry,   \* ImportTracker.neverthrowImports
    diags,      \* what context.report was handed, in order: node id, message
    nextId,     \* id of the next node the traversal enters
    imported,   \* the names the import declarations of the unit bind, each with
                \* its module: what the traversal has entered so far
    leftover,   \* what the tracker held when the host entered Program, kept
                \* until the traversal moves on
    passed      \* the factory names of the calls visited so far in this unit
                \* that the factory test let pass for want of a binding

\* Two rule instances at work at once, each on a unit of its own
VARIABLES
    instances,  \* of each instance: path, diagnostics, next id, imports so far
    trackers    \* the sets of the ImportTracker objects

vars ==
    <<family, path, registry, diags, nextId, imported, leftover, passed>>

cvars == <<instances, trackers>>

\* One invocation of the CallExpression visitor, loop iteration by loop
\* iteration
VARIABLES
    walkPath,   \* the nodes from Program down to the call the visitor is given
    pc,         \* the loop the visitor is in, or "done"
    current,    \* `current` of the loop (index on walkPath, 0 for null)
    check,      \* `checkNode` of the inner loop of isInReturnContext
    outcome,    \* how the visitor left: delegated, handled or classified
    steps       \* loop iterations executed so far

wvars == <<walkPath, pc, current, check, outcome, steps>>

\* ------------------------------------------------------------------ bounds
\* Units of bare statements over every name: nodes
MaxNamesNodes == 7
\* Units of method chains: depth, nodes, member accesses on a path
MaxChainDepth == 7
MaxChainNodes == 8
MaxChain == 2
\* Units of nested statements, functions and wrapping expressions
MaxNestDepth == 6
MaxNestNodes == 6
MaxNestChain == 1
\* Units of calls of a method of a name: nodes, member accesses on a path
MaxMemberNodes == 6
MaxMemberChain == 1
\* Units of declarations and of array, object and sequence expressions
MaxWrapDepth == 7
MaxWrapNodes == 7
MaxWrapChain == 1
\* Functions inside returned expressions and arrow bodies: depth and nodes
MaxInnerDepth == 8
MaxInnerNodes == 8
\* Nodes between Program and the call a single visitor invocation is given
MaxWalkDepth == 3
\* Units of two instances at work at once: nodes of each
MaxPairNodes == 4

\* ------------------------------------------------------------------- names
Str_ok == <<"o", "k">>
Str_err == <<"e", "r", "r">>
Str_okAsync == <<"o", "k", "A", "s", "y", "n", "c">>
Str_errAsync == <<"e", "r", "r", "A", "s", "y", "n", "c">>
Str_Ok == <<"O", "k">>
Str_Err == <<"E", "r", "r">>
Str_success == <<"s", "u", "c", "c", "e", "s", "s">>
Str_failure == <<"f", "a", "i", "l", "u", "r", "e">>
Str_Result == <<"R", "e", "s", "u", "l", "t">>
Str_ResultAsync == <<"R", "e", "s", "u", "l", "t", "A", "s", "y", "n", "c">>
Str_ErrorClass == <<"E", "r", "r", "o", "r", "C", "l", "a", "s", "s">>
Str_foo == <<"f", "o", "o">>
Str_result == <<"r", "e", "s", "u", "l", "t">>
Str_getResult == <<"g", "e", "t", "R", "e", "s", "u", "l", "t">>
Str_RESULTS == <<"R", "E", "S", "U", "L", "T", "S">>
Str_checkResult == <<"c", "h", "e", "c", "k", "R", "e", "s", "u", "l", "t">>
Str_hasResult == <<"h", "a", "s", "R", "e", "s", "u", "l", "t">>
Str_CheckResult == <<"C", "h", "e", "c", "k", "R", "e", "s", "u", "l", "t">>
Str_checkResults ==
    <<"c", "h", "e", "c", "k", "R", "e", "s", "u", "l", "t", "s">>
Str_HASRESULT == <<"H", "A", "S", "R", "E", "S", "U", "L", "T">>
Str_processResult ==
    <<"p", "r", "o", "c", "e", "s", "s", "R", "e", "s", "u", "l", "t">>
Str_isResultConstructorCall ==
    <<"i", "s", "R", "e", "s", "u", "l", "t", "C", "o", "n", "s", "t", "r",
      "u", "c", "t", "o", "r", "C", "a", "l", "l">>
Str_isResultMethodCall ==
    <<"i", "s", "R", "e", "s", "u", "l", "t", "M", "e", "t", "h", "o", "d",
      "C", "a", "l", "l">>
Str_isResultIdentifier ==
    <<"i", "s", "R", "e", "s", "u", "l", "t", "I", "d", "e", "n", "t", "i",
      "f", "i", "e", "r">>
Str_hasResultMethodChain ==
    <<"h", "a", "s", "R", "e", "s", "u", "l", "t", "M", "e", "t", "h", "o",
      "d", "C", "h", "a", "i", "n">>
Str_match == <<"m", "a", "t", "c", "h">>
Str_unwrapOr == <<"u", "n", "w", "r", "a", "p", "O", "r">>
Str_unsafeUnwrap ==
    <<"_", "u", "n", "s", "a", "f", "e", "U", "n", "w", "r", "a", "p">>
Str_map == <<"m", "a", "p">>
Str_mapErr == <<"m", "a", "p", "E", "r", "r">>
Str_andThen == <<"a", "n", "d", "T", "h", "e", "n">>
Str_orElse == <<"o", "r", "E", "l", "s", "e">>
Str_asyncAndThen ==
    <<"a", "s", "y", "n", "c", "A", "n", "d", "T", "h", "e", "n">>
Str_asyncMap == <<"a", "s", "y", "n", "c", "M", "a", "p">>
Str_isOk == <<"i", "s", "O", "k">>
Str_isErr == <<"i", "s", "E", "r", "r">>
Str_neverthrow == <<"n", "e", "v", "e", "r", "t", "h", "r", "o", "w">>
Str_otherModule == <<"o", "t", "h", "e", "r">>

\* ------------------------------------------------- constants of the source
HANDLED_METHODS == {Str_match, Str_unwrapOr, Str_unsafeUnwrap}

RESULT_METHODS ==
    {Str_map, Str_mapErr, Str_andThen, Str_orElse, Str_asyncAndThen,
     Str_asyncMap, Str_isOk, Str_isErr}

FactoryNames == {Str_ok, Str_err, Str_okAsync, Str_errAsync}

ConstructorNames == {Str_Ok, Str_Err}

ExcludedNames ==
    {Str_isResultConstructorCall, Str_isResultMethodCall,
     Str_isResultIdentifier, Str_hasResultMethodChain, Str_checkResult,
     Str_hasResult, Str_processResult}

\* ------------------------------------------------------ string operations
UpperCase ==
    <<"A", "B", "C", "D", "E", "F", "G", "H", "I", "J", "K", "L", "M",
      "N", "O", "P", "Q", "R", "S", "T", "U", "V", "W", "X", "Y", "Z">>

LowerCase ==
    <<"a", "b", "c", "d", "e", "f", "g", "h", "i", "j", "k", "l", "m",
      "n", "o", "p", "q", "r", "s", "t", "u", "v", "w", "x", "y", "z">>

\* String.prototype.toLowerCase on one character
LowerChar(c) ==
    IF \E i \in DOMAIN UpperCase : UpperCase[i] = c
    THEN LowerCase[CHOOSE i \in DOMAIN UpperCase : UpperCase[i] = c]
    ELSE c

\* String.prototype.toLowerCase
toLowerCase(s) == [i \in DOMAIN s |-> LowerChar(s[i])]

\* String.prototype.includes: sub occurs in s as a contiguous run
includes(s, sub) ==
    \E k \in 0..(Len(s) - Len(sub)) :
        \A i \in 1..Len(sub) : s[k + i] = sub[i]

\* --------------------------------------------------------------- the tree
\* A node on the path.  `sub` is the callee of a CallExpression or
\* NewExpression, or the property of a MemberExpression: its node type and,
\* for an Identifier, its name.  `role` is the field of the parent that holds
\* the node; `last` is the role of the latest child entered so far and
\* `returns` tells whether a ReturnStatement is among these children.  `imp`
\* is the source and the specifiers of an ImportDeclaration.  `expr` is the
\* expression of an ExpressionStatement: its type and its callee or property;
\* on a MemberExpression it is the object when that is a name or `this`.
NoName == <<>>
NoSub == [type |-> "none", name |-> NoName]
NoImport == [source |-> NoName, specifiers |-> <<>>]
NoExpr == [type |-> "none", sub |-> NoSub]
LeafExpr == [type |-> "Identifier", sub |-> NoSub]

Node(id, type, role, sub, imp, expr) ==
    [id |-> id, type |-> type, role |-> role, sub |-> sub, imp |-> imp,
     expr |-> expr, returns |-> FALSE, last |-> "none"]

Ident(name) == [type |-> "Identifier", name |-> name]
MemberCallee == [type |-> "MemberExpression", name |-> NoName]
ComputedProperty == [type |-> "Literal", name |-> NoName]
This == [type |-> "ThisExpression", sub |-> NoSub]
Object(name) == [type |-> "Identifier", sub |-> Ident(name)]

\* Index of the parent of path[i]; 0 stands for null (Program has no parent)
Parent(i) == i - 1

\* ----------------------------------------------------------- ast-helpers
\* getMethodName: the property name of a member access, NoName for null
getMethodName(n) ==
    IF n.type # "MemberExpression" THEN NoName
    ELSE IF n.sub.type = "Identifier" THEN n.sub.name ELSE NoName

\* isResultConstructorCall
isResultConstructorCall(n) ==
    IF n.type # "CallExpression" /\ n.type # "NewExpression" THEN FALSE
    ELSE IF n.type = "NewExpression"
        THEN n.sub.type = "Identifier"
             /\ (n.sub.name = Str_Ok \/ n.sub.name = Str_Err)
    ELSE IF n.sub.type = "Identifier" THEN n.sub.name \in FactoryNames
    ELSE FALSE

\* The body of the arrow function p[c], as the set of path indices that are
\* that body: p[c + 1] when the path leaves the arrow through its body, no
\* index when the body lies off the path (the path leaves through a parameter).
ArrowBody(p, c) ==
    IF c + 1 <= Len(p) /\ p[c + 1].role = "body" THEN {c + 1} ELSE {}

\* The inner loop of isInReturnContext: walk up from checkNode until it is
\* null or the body; true as soon as a node's parent is the body.
RECURSIVE BodyWalk(_, _, _)
BodyWalk(p, checkNode, body) ==
    IF checkNode = 0 \/ checkNode \in body THEN FALSE
    ELSE IF Parent(checkNode) \in body THEN TRUE
    ELSE BodyWalk(p, Parent(checkNode), body)

\* Variant of ArrowBodyContains that accepts the body itself only
ArrowBodyIsNode(p, n, c) == n \in ArrowBody(p, c)

\* The arrow-function branch of isInReturnContext for node n at arrow c
ArrowBodyContains(p, n, c) ==
    BodyWalk(p, n, ArrowBody(p, c)) \/ n \in ArrowBody(p, c)

\* Variant of BoundaryTypes without the block statement
BoundaryTypesNoBlock == {"FunctionDeclaration", "FunctionExpression"}

\* Variant of BoundaryTypes with no boundary at all
BoundaryTypesNone == {}

\* The node types at which isInReturnContext stops
BoundaryTypes == {"FunctionDeclaration", "FunctionExpression", "BlockStatement"}

\* The outer loop of isInReturnContext, with current = p[c] (0 for null)
RECURSIVE ReturnWalk(_, _, _)
ReturnWalk(p, n, c) ==
    IF c = 0 THEN FALSE
    ELSE IF p[c].type = "ReturnStatement" THEN TRUE
    ELSE IF p[c].type = "ArrowFunctionExpression" /\ ArrowBodyContains(p, n, c)
        THEN TRUE
    ELSE IF p[c].type \in BoundaryTypes THEN FALSE
    ELSE ReturnWalk(p, n, Parent(c))

\* isInReturnContext of the node p[n]
isInReturnContext(p, n) == ReturnWalk(p, n, Parent(n))

\* ------------------------------------------------------ must-use-result
\* Variant of HandledWalk that looks at the parent only
HandledWalkParentOnly(p, c) ==
    /\ c # 0
    /\ p[c].type = "MemberExpression"
    /\ getMethodName(p[c]) \in HANDLED_METHODS
    /\ Parent(c) # 0
    /\ p[Parent(c)].type = "CallExpression"
    /\ p[c].role = "callee"

\* Variant of HandledWalk that takes every Result method for a handler
RECURSIVE HandledWalkAnyMethod(_, _)
HandledWalkAnyMethod(p, c) ==
    IF c = 0 THEN FALSE
    ELSE IF p[c].type = "MemberExpression"
        THEN IF getMethodName(p[c]) \in HANDLED_METHODS \cup RESULT_METHODS
                /\ Parent(c) # 0
                /\ p[Parent(c)].type = "CallExpression"
                /\ p[c].role = "callee"
             THEN TRUE
             ELSE HandledWalkAnyMethod(p, Parent(c))
    ELSE IF p[c].type = "CallExpression" THEN HandledWalkAnyMethod(p, Parent(c))
    ELSE FALSE

\* Variant of HandledWalk that climbs through every parent
RECURSIVE HandledWalkThroughAll(_, _)
HandledWalkThroughAll(p, c) ==
    IF c = 0 THEN FALSE
    ELSE IF p[c].type = "MemberExpression"
            /\ getMethodName(p[c]) \in HANDLED_METHODS
            /\ Parent(c) # 0
            /\ p[Parent(c)].type = "CallExpression"
            /\ p[c].role = "callee"
        THEN TRUE
    ELSE HandledWalkThroughAll(p, Parent(c))

\* Variant of HandledWalk that takes a handling name for an invocation
RECURSIVE HandledWalkByNameOnly(_, _)
HandledWalkByNameOnly(p, c) ==
    IF c = 0 THEN FALSE
    ELSE IF p[c].type = "MemberExpression"
        THEN IF getMethodName(p[c]) \in HANDLED_METHODS
             THEN TRUE
             ELSE HandledWalkByNameOnly(p, Parent(c))
    ELSE IF p[c].type = "CallExpression"
        THEN HandledWalkByNameOnly(p, Parent(c))
    ELSE FALSE

\* Variant of HandledWalk that climbs through transforming methods only
RECURSIVE HandledWalkTransformersOnly(_, _)
HandledWalkTransformersOnly(p, c) ==
    IF c = 0 THEN FALSE
    ELSE IF p[c].type = "MemberExpression"
        THEN IF getMethodName(p[c]) \in HANDLED_METHODS
                /\ Parent(c) # 0
                /\ p[Parent(c)].type = "CallExpression"
                /\ p[c].role = "callee"
             THEN TRUE
             ELSE IF getMethodName(p[c]) \in RESULT_METHODS
             THEN HandledWalkTransformersOnly(p, Parent(c))
             ELSE FALSE
    ELSE IF p[c].type = "CallExpression"
        THEN HandledWalkTransformersOnly(p, Parent(c))
    ELSE FALSE

\* The loop of isImmediatelyHandled, with current = p[c] (0 for null)
RECURSIVE HandledWalk(_, _)
HandledWalk(p, c) ==
    IF c = 0 THEN FALSE
    ELSE IF p[c].type = "MemberExpression"
        THEN IF getMethodName(p[c]) # NoName
                /\ getMethodName(p[c]) \in HANDLED_METHODS
                /\ Parent(c) # 0
                /\ p[Parent(c)].type = "CallExpression"
                /\ p[c].role = "callee"
             THEN TRUE
             ELSE HandledWalk(p, Parent(c))
    ELSE IF p[c].type = "CallExpression" THEN HandledWalk(p, Parent(c))
    ELSE FALSE

\* isImmediatelyHandled of the node p[n]
isImmediatelyHandled(p, n) == HandledWalk(p, Parent(n))

\* ImportTracker.isNeverthrowImport
isNeverthrowImport(reg, name) == name \in reg

\* Variant of FactoryReport that knows the synchronous factories only
FactoryReportSyncOnly(reg, callee) ==
    callee.type = "Identifier"
    /\ callee.name \in {Str_ok, Str_err}
    /\ isNeverthrowImport(reg, callee.name)

\* Variant of FactoryReport that accepts every bound name
FactoryReportAnyBound(reg, callee) ==
    callee.type = "Identifier"
    /\ isNeverthrowImport(reg, callee.name)

\* Variant of FactoryReport without the test of the callee's type
FactoryReportAnyCallee(reg, callee) ==
    callee.type # "Identifier"
    \/ (callee.name \in FactoryNames /\ isNeverthrowImport(reg, callee.name))

\* Variant of FactoryReport that does not ask the registry
FactoryReportUnasked(reg, callee) ==
    callee.type = "Identifier"
    /\ callee.name \in FactoryNames

\* The first report of the CallExpression visitor: a bound factory name
FactoryReport(reg, callee) ==
    callee.type = "Identifier"
    /\ callee.name \in FactoryNames
    /\ isNeverthrowImport(reg, callee.name)

\* Variant of HeuristicReport that compares without toLowerCase
HeuristicReportCaseSensitive(callee) ==
    callee.type = "Identifier"
    /\ includes(callee.name, Str_result)
    /\ callee.name \notin ExcludedNames

\* Variant of HeuristicReport that compares the excluded names in lower case
HeuristicReportExcludesAnyCase(callee) ==
    callee.type = "Identifier"
    /\ includes(toLowerCase(callee.name), Str_result)
    /\ toLowerCase(callee.name) \notin {toLowerCase(e) : e \in ExcludedNames}

\* The second report of the CallExpression visitor: the name heuristic
HeuristicReport(callee) ==
    callee.type = "Identifier"
    /\ includes(toLowerCase(callee.name), Str_result)
    /\ callee.name # Str_isResultConstructorCall
    /\ callee.name # Str_isResultMethodCall
    /\ callee.name # Str_isResultIdentifier
    /\ callee.name # Str_hasResultMethodChain
    /\ callee.name # Str_checkResult
    /\ callee.name # Str_hasResult
    /\ callee.name # Str_processResult

\* The message literal of the factory report
FactoryMessage ==
    "Result must be handled with either match, unwrapOr, or _unsafeUnwrap"

\* Variant of HeuristicMessage with a wording of its own
HeuristicMessageOwnWording ==
    "Call may return a Result that must be handled"

\* The message literal of the heuristic report
HeuristicMessage ==
    "Result must be handled with either match, unwrapOr, or _unsafeUnwrap"

\* The message literal of the NewExpression visitor's report
ConstructorMessage ==
    "Result must be handled with either match, unwrapOr, or _unsafeUnwrap"

\* Variant of Report that puts the diagnostic in front
ReportInFront(d, n, message) == <<[node |-> n.id, message |-> message]>> \o d

\* context.report({node, message})
Report(d, n, message) == Append(d, [node |-> n.id, message |-> message])

\* Variant of the CallExpression visitor without the immediate-handling skip
CallExpressionVisitorNoHandledSkip(p, reg, d) ==
    LET n == Len(p)
        d1 == IF FactoryReport(reg, p[n].sub)
              THEN Report(d, p[n], FactoryMessage) ELSE d
        d2 == IF HeuristicReport(p[n].sub)
              THEN Report(d1, p[n], HeuristicMessage) ELSE d1
    IN  IF isInReturnContext(p, n) THEN d ELSE d2

\* Variant of the CallExpression visitor that exempts the factory report only
CallExpressionVisitorExemptFactoryOnly(p, reg, d) ==
    LET n == Len(p)
        d1 == IF /\ ~isInReturnContext(p, n)
                 /\ ~isImmediatelyHandled(p, n)
                 /\ FactoryReport(reg, p[n].sub)
              THEN Report(d, p[n], FactoryMessage) ELSE d
    IN  IF HeuristicReport(p[n].sub)
        THEN Report(d1, p[n], HeuristicMessage) ELSE d1

\* The CallExpression visitor on p[Len(p)]: the diagnostics it leaves
CallExpressionVisitor(p, reg, d) ==
    LET n == Len(p)
        d1 == IF FactoryReport(reg, p[n].sub)
              THEN Report(d, p[n], FactoryMessage) ELSE d
        d2 == IF HeuristicReport(p[n].sub)
              THEN Report(d1, p[n], HeuristicMessage) ELSE d1
    IN  IF isInReturnContext(p, n) THEN d
        ELSE IF isImmediatelyHandled(p, n) THEN d
        ELSE d2

\* Variant of the NewExpression visitor that asks the registry for the name
NewExpressionVisitorBound(p, reg, d) ==
    LET n == Len(p)
    IN  IF isInReturnContext(p, n) THEN d
        ELSE IF isImmediatelyHandled(p, n) THEN d
        ELSE IF isResultConstructorCall(p[n])
                /\ isNeverthrowImport(reg, p[n].sub.name)
            THEN Report(d, p[n], ConstructorMessage)
        ELSE d

\* The NewExpression visitor on p[Len(p)]: the diagnostics it leaves
NewExpressionVisitor(p, reg, d) ==
    LET n == Len(p)
    IN  IF isInReturnContext(p, n) THEN d
        ELSE IF isImmediatelyHandled(p, n) THEN d
        ELSE IF isResultConstructorCall(p[n])
            THEN Report(d, p[n], ConstructorMessage)
        ELSE d

\* Variant of the ExpressionStatement visitor that reports the bound factory
\* call it finds, at the expression (the node the traversal enters next)
ExpressionStatementVisitorReports(p, reg, d) ==
    LET n == Len(p)
        expression == Node(p[n].id + 1, p[n].expr.type, "expression",
                           p[n].expr.sub, NoImport, NoExpr)
    IN  IF isInReturnContext(Append(p, expression), n + 1) THEN d
        ELSE IF /\ expression.type = "CallExpression"
                /\ expression.sub.type = "Identifier"
                /\ expression.sub.name \in FactoryNames
                /\ isNeverthrowImport(reg, expression.sub.name)
            THEN Report(d, expression, FactoryMessage)
        ELSE d

\* The ExpressionStatement visitor on p[Len(p)]: the diagnostics it leaves.
\* The walk starts at node.expression, whose parent is the statement.
ExpressionStatementVisitor(p, reg, d) ==
    LET n == Len(p)
        expression == Node(0, p[n].expr.type, "expression", p[n].expr.sub,
                           NoImport, NoExpr)
    IN  IF isInReturnContext(Append(p, expression), n + 1) THEN d
        ELSE IF /\ expression.type = "CallExpression"
                /\ expression.sub.type = "Identifier"
                /\ expression.sub.name \in FactoryNames
                /\ isNeverthrowImport(reg, expression.sub.name)
            THEN d
        ELSE d

\* Variant of AddSpecifiers that records the imported name of a named import
RECURSIVE AddSpecifiersImported(_, _)
AddSpecifiersImported(reg, specs) ==
    IF specs = <<>> THEN reg
    ELSE LET s == Head(specs)
         IN  AddSpecifiersImported(
                IF s.type = "ImportSpecifier" THEN reg \cup {s.imported}
                ELSE reg \cup {s.local},
                Tail(specs))

\* Variant of AddSpecifiers that skips the namespace and default forms
RECURSIVE AddSpecifiersNamedOnly(_, _)
AddSpecifiersNamedOnly(reg, specs) ==
    IF specs = <<>> THEN reg
    ELSE LET s == Head(specs)
         IN  AddSpecifiersNamedOnly(
                IF s.type = "ImportSpecifier" THEN reg \cup {s.local} ELSE reg,
                Tail(specs))

\* ImportTracker.trackImport: the registry it leaves
RECURSIVE AddSpecifiers(_, _)
AddSpecifiers(reg, specs) ==
    IF specs = <<>> THEN reg
    ELSE LET s == Head(specs)
         IN  AddSpecifiers(
                IF s.type \in {"ImportSpecifier", "ImportDefaultSpecifier",
                               "ImportNamespaceSpecifier"}
                THEN reg \cup {s.local} ELSE reg,
                Tail(specs))

\* Variant of clear that keeps the names
clearKeepsNames(reg) == reg

\* ImportTracker.clear
clear(reg) == {}

\* Variant of trackImport that records the imports of every module
trackImportAnySource(reg, n) ==
    IF n.type # "ImportDeclaration" THEN reg
    ELSE AddSpecifiers(reg, n.imp.specifiers)

trackImport(reg, n) ==
    IF n.type # "ImportDeclaration" THEN reg
    ELSE IF n.imp.source = Str_neverthrow THEN AddSpecifiers(reg, n.imp.specifiers)
    ELSE reg

\* ------------------------------------------------------- the input trees
\* import { x }, import { x as y }, import y, import * as y
Named(x) == [type |-> "ImportSpecifier", imported |-> x, local |-> x]
Aliased(x, y) == [type |-> "ImportSpecifier", imported |-> x, local |-> y]
Default(y) == [type |-> "ImportDefaultSpecifier", imported |-> NoName, local |-> y]
Namespace(y) ==
    [type |-> "ImportNamespaceSpecifier", imported |-> NoName, local |-> y]

Import(source, specifiers) == [source |-> source, specifiers |-> specifiers]

\* The import declarations of the test suite, and one for each factory name
TestImport ==
    Import(Str_neverthrow,
           <<Named(Str_Result), Named(Str_Ok), Named(Str_Err), Named(Str_ok),
             Named(Str_err), Named(Str_ResultAsync), Named(Str_okAsync),
             Named(Str_errAsync)>>)

NamespaceImport == Import(Str_neverthrow, <<Namespace(Str_neverthrow)>>)

AliasImport ==
    Import(Str_neverthrow,
           <<Aliased(Str_ok, Str_success), Aliased(Str_err, Str_failure)>>)

TypeImport == Import(Str_neverthrow, <<Named(Str_Result)>>)

MixedImport ==
    Import(Str_neverthrow,
           <<Named(Str_ok), Aliased(Str_Err, Str_ErrorClass)>>)

OtherImport == Import(Str_otherModule, <<Named(Str_ok)>>)

DefaultImport == Import(Str_neverthrow, <<Default(Str_ok)>>)

FactoryImports == {Import(Str_neverthrow, <<Named(x)>>) : x \in FactoryNames}

StatementTypes ==
    {"ExpressionStatement", "IfStatement", "WhileStatement", "ForStatement",
     "BlockStatement", "FunctionDeclaration", "ReturnStatement"}

ExpressionTypes ==
    {"CallExpression", "NewExpression", "MemberExpression",
     "ArrowFunctionExpression", "FunctionExpression", "ArrayExpression"}

NamesTypes ==
    {"ImportDeclaration", "ExpressionStatement", "CallExpression",
     "NewExpression"}

ChainTypes ==
    {"ImportDeclaration", "ExpressionStatement", "CallExpression",
     "NewExpression", "MemberExpression"}

\* The families of trees a unit is drawn from.  Each bounds the search in
\* its own direction: every name on bare statements, long method chains, and
\* deep nesting of statements, functions and wrapping expressions.
\* `leading` tells whether an import declaration can only open the unit, as
\* in the units of the test suite, or can stand between the statements too.
NamesFamily ==
    [types |-> NamesTypes,
     leading |-> FALSE,
     arguments |-> FALSE,
     callees |-> FactoryNames \cup ExcludedNames
                 \cup {Str_getResult, Str_RESULTS, Str_success, Str_foo,
                       Str_Ok, Str_CheckResult, Str_checkResults,
                       Str_HASRESULT},
     constructed |-> {Str_Ok, Str_Err, Str_ErrorClass, Str_getResult, Str_ok},
     properties |-> {},
     objects |-> {},
     imports |-> {TestImport, NamespaceImport, AliasImport, TypeImport,
                  MixedImport, OtherImport, DefaultImport}
                 \cup FactoryImports,
     depth |-> MaxNamesNodes, nodes |-> MaxNamesNodes, chain |-> MaxNamesNodes]

ChainFamily ==
    [types |-> ChainTypes,
     leading |-> TRUE,
     arguments |-> FALSE,
     callees |-> {Str_ok, Str_getResult},
     constructed |-> {Str_Ok},
     properties |->
        {Ident(m) : m \in HANDLED_METHODS \cup {Str_map, Str_isOk, Str_foo}}
        \cup {ComputedProperty},
     objects |-> {},
     imports |-> {Import(Str_neverthrow, <<Named(Str_ok)>>)},
     depth |-> MaxChainDepth, nodes |-> MaxChainNodes, chain |-> MaxChain]

NestFamily ==
    [types |-> {"ImportDeclaration", "AssignmentPattern"}
               \cup StatementTypes \cup ExpressionTypes,
     leading |-> TRUE,
     arguments |-> TRUE,
     callees |-> {Str_ok},
     constructed |-> {Str_Ok},
     properties |-> {Ident(Str_unwrapOr), Ident(Str_map)},
     objects |-> {},
     imports |-> {Import(Str_neverthrow, <<Named(Str_ok)>>)},
     depth |-> MaxNestDepth, nodes |-> MaxNestNodes, chain |-> MaxNestChain]

\* Calls of a method of a name or of `this`
MemberFamily ==
    [types |-> ChainTypes,
     leading |-> TRUE,
     arguments |-> FALSE,
     callees |-> {Str_ok, Str_getResult},
     constructed |-> {},
     properties |->
        {Ident(Str_ok), Ident(Str_getResult), Ident(Str_unwrapOr),
         Ident(Str_foo)},
     objects |-> {Object(Str_neverthrow), Object(Str_Result), This},
     imports |-> {TestImport, NamespaceImport},
     depth |-> MaxMemberNodes, nodes |-> MaxMemberNodes,
     chain |-> MaxMemberChain]

WrapTypes ==
    {"ImportDeclaration", "ExpressionStatement", "VariableDeclaration",
     "VariableDeclarator", "ArrayExpression", "ObjectExpression", "Property",
     "SequenceExpression", "CallExpression", "NewExpression",
     "MemberExpression"}

\* Producing nodes in declarations and in array, object and sequence
\* expressions, and method calls on these and on the declared name
WrapFamily ==
    [types |-> WrapTypes,
     leading |-> TRUE,
     arguments |-> FALSE,
     callees |-> {Str_ok},
     constructed |-> {Str_Ok},
     properties |-> {Ident(Str_unwrapOr)},
     objects |-> {Object(Str_result)},
     imports |-> {Import(Str_neverthrow, <<Named(Str_ok)>>)},
     depth |-> MaxWrapDepth, nodes |-> MaxWrapNodes, chain |-> MaxWrapChain]

\* Statements in the block of a function that is itself returned or the
\* body of an arrow function
InnerFamily ==
    [types |-> {"ExpressionStatement", "BlockStatement", "ReturnStatement",
                "FunctionDeclaration", "FunctionExpression",
                "ArrowFunctionExpression", "CallExpression", "NewExpression"},
     leading |-> TRUE,
     arguments |-> FALSE,
     callees |-> {Str_getResult},
     constructed |-> {Str_Ok},
     properties |-> {},
     objects |-> {},
     imports |-> {},
     depth |-> MaxInnerDepth, nodes |-> MaxInnerNodes, chain |-> 0]

Families == {"names", "chain", "nest", "member", "wrap", "inner"}

\* The grammar of a family
Grammar(name) ==
    CASE name = "names" -> NamesFamily
      [] name = "chain" -> ChainFamily
      [] name = "nest" -> NestFamily
      [] name = "member" -> MemberFamily
      [] name = "wrap" -> WrapFamily
      [] name = "inner" -> InnerFamily

Shape(type, role, sub, imp) ==
    [type |-> type, role |-> role, sub |-> sub, imp |-> imp, expr |-> NoExpr]

Plain(type, role) == Shape(type, role, NoSub, NoImport)

Callees(names) == {Ident(c) : c \in names} \cup {MemberCallee}

Members(f, role) ==
    {Shape("MemberExpression", role, s, NoImport) : s \in f.properties}
    \cup {[Shape("MemberExpression", role, s, NoImport) EXCEPT !.expr = o] :
            s \in f.properties, o \in f.objects}

Expressions(f, role) ==
    {Shape("CallExpression", role, s, NoImport) : s \in Callees(f.callees)}
    \cup {Shape("NewExpression", role, s, NoImport) :
            s \in Callees(f.constructed)}
    \cup Members(f, role)
    \cup {Plain("ArrowFunctionExpression", role),
          Plain("FunctionExpression", role),
          Plain("ArrayExpression", role),
          Plain("ObjectExpression", role),
          Plain("SequenceExpression", role)}

LoopTypes == {"WhileStatement", "ForStatement"}

FunctionTypes ==
    {"FunctionDeclaration", "FunctionExpression", "ArrowFunctionExpression"}

InFunction(p) == \E i \in DOMAIN p : p[i].type \in FunctionTypes

\* The expression statements: one for each expression it can hold, and one
\* that holds an identifier
ExpressionStatements(f, role) ==
    {[Plain("ExpressionStatement", role) EXCEPT
        !.expr = [type |-> e.type, sub |-> e.sub]] :
            e \in Expressions(f, "expression")}
    \cup {[Plain("ExpressionStatement", role) EXCEPT !.expr = LeafExpr]}

Statements(f, p, role) ==
    ExpressionStatements(f, role)
    \cup {Plain("IfStatement", role), Plain("WhileStatement", role),
          Plain("ForStatement", role), Plain("BlockStatement", role),
          Plain("FunctionDeclaration", role),
          Plain("VariableDeclaration", role)}
    \cup (IF InFunction(p) THEN {Plain("ReturnStatement", role)} ELSE {})

Imports(f) ==
    {Shape("ImportDeclaration", "body", NoSub, i) : i \in f.imports}

\* The nodes the traversal can enter next below the last node of the path
Children(f, p) ==
    LET top == p[Len(p)]
    IN  CASE top.type = "Program" -> Statements(f, p, "body") \cup Imports(f)
          [] top.type = "BlockStatement" -> Statements(f, p, "body")
          [] top.type \in {"FunctionDeclaration", "FunctionExpression"} ->
                (IF top.last = "none"
                 THEN {Plain("AssignmentPattern", "params")} ELSE {})
                \cup (IF top.last # "body"
                      THEN {Plain("BlockStatement", "body")} ELSE {})
          [] top.type = "ArrowFunctionExpression" ->
                (IF top.last = "none"
                 THEN {Plain("AssignmentPattern", "params")} ELSE {})
                \cup (IF top.last # "body"
                      THEN {Plain("BlockStatement", "body")}
                           \cup Expressions(f, "body")
                      ELSE {})
          [] top.type = "AssignmentPattern" ->
                IF top.last = "none" THEN Expressions(f, "right") ELSE {}
          [] top.type = "ReturnStatement" ->
                IF top.last = "none" THEN Expressions(f, "argument") ELSE {}
          [] top.type = "ExpressionStatement" ->
                IF top.last = "none"
                THEN {e \in Expressions(f, "expression") :
                        top.expr = [type |-> e.type, sub |-> e.sub]}
                ELSE {}
          [] top.type = "IfStatement" ->
                CASE top.last = "none" ->
                        Expressions(f, "test") \cup Statements(f, p, "consequent")
                  [] top.last = "test" -> Statements(f, p, "consequent")
                  [] top.last = "consequent" -> Statements(f, p, "alternate")
                  [] OTHER -> {}
          [] top.type \in LoopTypes ->
                IF top.last = "none" THEN Statements(f, p, "body") ELSE {}
          [] top.type \in {"CallExpression", "NewExpression"} ->
                IF top.sub.type = "MemberExpression" /\ top.last = "none"
                THEN Members(f, "callee")
                ELSE IF f.arguments THEN Expressions(f, "arguments")
                ELSE {}
          [] top.type = "MemberExpression" ->
                IF top.last = "none" /\ top.expr = NoExpr
                THEN Expressions(f, "object") ELSE {}
          [] top.type = "ArrayExpression" -> Expressions(f, "elements")
          [] top.type = "SequenceExpression" -> Expressions(f, "expressions")
          [] top.type = "ObjectExpression" -> {Plain("Property", "properties")}
          [] top.type = "Property" ->
                IF top.last = "none" THEN Expressions(f, "value") ELSE {}
          [] top.type = "VariableDeclaration" ->
                {Plain("VariableDeclarator", "declarations")}
          [] top.type = "VariableDeclarator" ->
                IF top.last = "none" THEN Expressions(f, "init") ELSE {}
          [] OTHER -> {}

\* The bounds of a family on the node entered next
Fits(f, p, c) ==
    /\ c.type \in f.types
    /\ (c.type = "ImportDeclaration" /\ f.leading) => p[Len(p)].last = "none"
    /\ c.expr.type \in f.types \cup {"none", "Identifier", "ThisExpression"}
    /\ (\/ c.type = "MemberExpression"
        \/ c.sub.type = "MemberExpression"
        \/ c.expr.type = "MemberExpression"
        \/ c.expr.sub.type = "MemberExpression") =>
            /\ "MemberExpression" \in f.types
            /\ Cardinality({i \in DOMAIN p : p[i].type = "MemberExpression"})
                    < f.chain

\* The children a node must have had before the traversal leaves it
Complete(n) ==
    CASE n.type \in {"FunctionDeclaration", "FunctionExpression"} ->
            n.last = "body"
      [] n.type \in {"CallExpression", "NewExpression"} ->
            n.sub.type = "MemberExpression" => n.last # "none"
      [] n.type = "IfStatement" -> n.last \in {"consequent", "alternate"}
      [] n.type \in LoopTypes -> n.last = "body"
      [] n.type = "Property" -> n.last = "value"
      [] n.type = "VariableDeclaration" -> n.last = "declarations"
      [] n.type = "ExpressionStatement" ->
            n.expr = LeafExpr \/ n.last = "expression"
      [] OTHER -> TRUE

\* ------------------------------------------------------------ traversal
\* The local names an import declaration binds, each with its module
Bindings(imp) ==
    {[source |-> imp.source, local |-> imp.specifiers[k].local] :
        k \in DOMAIN imp.specifiers}

Instances == {1, 2}

\* An instance that has not been handed a unit
Idle == [path |-> <<>>, diags |-> <<>>, nextId |-> 1, imported |-> {}]

\* No visitor invocation is followed step by step
NoWalk ==
    /\ walkPath = <<>>
    /\ pc = "done"
    /\ current = 0
    /\ check = 0
    /\ outcome = "none"
    /\ steps = 0

Init ==
    /\ NoWalk
    /\ instances = [k \in Instances |-> Idle]
    /\ trackers = [t \in Instances |-> {}]
    /\ family \in Families
    /\ path = <<>>
    /\ registry = {}
    /\ diags = <<>>
    /\ nextId = 1
    /\ imported = {}
    /\ leftover = {}
    /\ passed = {}

\* The callee of p[Len(p)] when the CallExpression visitor reaches the factory
\* test with one of the four names and isNeverthrowImport answers false
PassedUnbound(p, reg) ==
    LET n == Len(p)
    IN  IF /\ ~isInReturnContext(p, n)
           /\ ~isImmediatelyHandled(p, n)
           /\ p[n].sub.type = "Identifier"
           /\ p[n].sub.name \in FactoryNames
           /\ ~isNeverthrowImport(reg, p[n].sub.name)
        THEN {p[n].sub.name}
        ELSE {}

\* The path after the traversal enters a child of shape c
Push(p, c, id) ==
    Append([p EXCEPT ![Len(p)].last = c.role,
                     ![Len(p)].returns = @ \/ c.type = "ReturnStatement"],
           Node(id, c.type, c.role, c.sub, c.imp, c.expr))

CanEnter ==
    /\ path # <<>>
    /\ Len(path) < Grammar(family).depth
    /\ nextId <= Grammar(family).nodes

VisitedTypes ==
    {"Program", "ImportDeclaration", "CallExpression", "NewExpression",
     "ExpressionStatement"}

\* Program(): importTracker.clear().  The host starts the traversal of the
\* next unit: its nodes are numbered from 1 and its diagnostics start empty;
\* the tracker is the one the previous unit left behind.
VisitProgram ==
    /\ path = <<>>
    /\ family' \in Families
    /\ path' = <<Node(1, "Program", "root", NoSub, NoImport, NoExpr)>>
    /\ registry' = clear(registry)
    /\ diags' = <<>>
    /\ nextId' = 2
    /\ imported' = {}
    /\ leftover' = registry
    /\ passed' = {}
    /\ UNCHANGED <<cvars, wvars>>

\* ImportDeclaration(node): importTracker.trackImport(node)
VisitImportDeclaration ==
    /\ CanEnter
    /\ \E c \in Children(Grammar(family), path) :
        /\ Fits(Grammar(family), path, c)
        /\ c.type = "ImportDeclaration"
        /\ path' = Push(path, c, nextId)
        /\ registry' = trackImport(registry, path'[Len(path')])
        /\ imported' = imported \cup Bindings(c.imp)
    /\ nextId' = nextId + 1
    /\ leftover' = {}
    /\ UNCHANGED <<family, diags, passed, cvars, wvars>>

\* CallExpression(node)
VisitCallExpression ==
    /\ CanEnter
    /\ \E c \in Children(Grammar(family), path) :
        /\ Fits(Grammar(family), path, c)
        /\ c.type = "CallExpression"
        /\ path' = Push(path, c, nextId)
        /\ diags' = CallExpressionVisitor(path', registry, diags)
        /\ passed' = passed \cup PassedUnbound(path', registry)
    /\ nextId' = nextId + 1
    /\ leftover' = {}
    /\ UNCHANGED <<family, registry, imported, cvars, wvars>>

\* NewExpression(node)
VisitNewExpression ==
    /\ CanEnter
    /\ \E c \in Children(Grammar(family), path) :
        /\ Fits(Grammar(family), path, c)
        /\ c.type = "NewExpression"
        /\ path' = Push(path, c, nextId)
        /\ diags' = NewExpressionVisitor(path', registry, diags)
    /\ nextId' = nextId + 1
    /\ leftover' = {}
    /\ UNCHANGED <<family, registry, imported, passed, cvars, wvars>>

\* ExpressionStatement(node)
VisitExpressionStatement ==
    /\ CanEnter
    /\ \E c \in Children(Grammar(family), path) :
        /\ Fits(Grammar(family), path, c)
        /\ c.type = "ExpressionStatement"
        /\ path' = Push(path, c, nextId)
        /\ diags' = ExpressionStatementVisitor(path', registry, diags)
    /\ nextId' = nextId + 1
    /\ leftover' = {}
    /\ UNCHANGED <<family, registry, imported, passed, cvars, wvars>>

\* A node of a type the rule registers no visitor for
EnterOther ==
    /\ CanEnter
    /\ \E c \in Children(Grammar(family), path) :
        /\ Fits(Grammar(family), path, c)
        /\ c.type \notin VisitedTypes
        /\ path' = Push(path, c, nextId)
    /\ nextId' = nextId + 1
    /\ leftover' = {}
    /\ UNCHANGED <<family, registry, diags, imported, passed, cvars, wvars>>

\* The traversal has entered every child of the node and returns to its parent
Leave ==
    /\ path # <<>>
    /\ Complete(path[Len(path)])
    /\ path' = SubSeq(path, 1, Len(path) - 1)
    /\ leftover' = {}
    /\ UNCHANGED
        <<family, registry, diags, nextId, imported, passed, cvars, wvars>>

Next ==
    \/ VisitProgram
    \/ VisitImportDeclaration
    \/ VisitCallExpression
    \/ VisitNewExpression
    \/ VisitExpressionStatement
    \/ EnterOther
    \/ Leave

Spec == Init /\ [][Next]_<<vars, cvars, wvars>>

\* ------------------------------------------------- two rule instances
\* The units two instances are handed: bare statements, with or without
\* the import that binds ok
PairFamily ==
    [types |-> NamesTypes,
     leading |-> FALSE,
     arguments |-> FALSE,
     callees |-> {Str_ok, Str_getResult},
     constructed |-> {Str_Ok},
     properties |-> {},
     objects |-> {},
     imports |-> {Import(Str_neverthrow, <<Named(Str_ok)>>), OtherImport},
     depth |-> MaxPairNodes, nodes |-> MaxPairNodes, chain |-> MaxPairNodes]

\* Variant of TrackerOf with one tracker for all instances
TrackerOfModule(k) == 1

\* create(): const importTracker = new ImportTracker(), one for each call
TrackerOf(k) == k

InitConcurrent ==
    /\ NoWalk
    /\ instances = [k \in Instances |-> Idle]
    /\ trackers = [t \in Instances |-> {}]
    /\ family = "names"
    /\ path = <<>>
    /\ registry = {}
    /\ diags = <<>>
    /\ nextId = 1
    /\ imported = {}
    /\ leftover = {}
    /\ passed = {}

\* The instance can enter a node next
CanEnterUnit(u) ==
    /\ u.path # <<>>
    /\ Len(u.path) < PairFamily.depth
    /\ u.nextId <= PairFamily.nodes

\* The instance after the traversal has entered a child of shape c and the
\* visitor of its type has left the diagnostics d
Entered(u, c, d) ==
    [path |-> Push(u.path, c, u.nextId),
     diags |-> d,
     nextId |-> u.nextId + 1,
     imported |-> IF c.type = "ImportDeclaration"
                  THEN u.imported \cup Bindings(c.imp) ELSE u.imported]

\* Program() of instance k
ConcurrentProgram(k) ==
    /\ instances[k].path = <<>>
    /\ instances' =
            [instances EXCEPT ![k] =
                [path |-> <<Node(1, "Program", "root", NoSub, NoImport, NoExpr)>>,
                 diags |-> <<>>, nextId |-> 2, imported |-> {}]]
    /\ trackers' = [trackers EXCEPT ![TrackerOf(k)] = clear(@)]
    /\ UNCHANGED <<vars, wvars>>

\* ImportDeclaration(node) of instance k
ConcurrentImportDeclaration(k) ==
    /\ CanEnterUnit(instances[k])
    /\ \E c \in Children(PairFamily, instances[k].path) :
        /\ Fits(PairFamily, instances[k].path, c)
        /\ c.type = "ImportDeclaration"
        /\ instances' =
                [instances EXCEPT ![k] = Entered(@, c, instances[k].diags)]
        /\ trackers' =
                [trackers EXCEPT ![TrackerOf(k)] =
                    trackImport(@, Node(0, c.type, c.role, c.sub, c.imp, c.expr))]
    /\ UNCHANGED <<vars, wvars>>

\* CallExpression(node) of instance k
ConcurrentCallExpression(k) ==
    /\ CanEnterUnit(instances[k])
    /\ \E c \in Children(PairFamily, instances[k].path) :
        /\ Fits(PairFamily, instances[k].path, c)
        /\ c.type = "CallExpression"
        /\ instances' =
                [instances EXCEPT ![k] =
                    Entered(@, c,
                        CallExpressionVisitor(
                            Push(instances[k].path, c, instances[k].nextId),
                            trackers[TrackerOf(k)], instances[k].diags))]
    /\ UNCHANGED <<trackers, vars, wvars>>

\* NewExpression(node) of instance k
ConcurrentNewExpression(k) ==
    /\ CanEnterUnit(instances[k])
    /\ \E c \in Children(PairFamily, instances[k].path) :
        /\ Fits(PairFamily, instances[k].path, c)
        /\ c.type = "NewExpression"
        /\ instances' =
                [instances EXCEPT ![k] =
                    Entered(@, c,
                        NewExpressionVisitor(
                            Push(instances[k].path, c, instances[k].nextId),
                            trackers[TrackerOf(k)], instances[k].diags))]
    /\ UNCHANGED <<trackers, vars, wvars>>

\* ExpressionStatement(node) of instance k
ConcurrentExpressionStatement(k) ==
    /\ CanEnterUnit(instances[k])
    /\ \E c \in Children(PairFamily, instances[k].path) :
        /\ Fits(PairFamily, instances[k].path, c)
        /\ c.type = "ExpressionStatement"
        /\ instances' =
                [instances EXCEPT ![k] =
                    Entered(@, c,
                        ExpressionStatementVisitor(
                            Push(instances[k].path, c, instances[k].nextId),
                            trackers[TrackerOf(k)], instances[k].diags))]
    /\ UNCHANGED <<trackers, vars, wvars>>

\* The traversal of instance k returns to the parent
ConcurrentLeave(k) ==
    /\ instances[k].path # <<>>
    /\ Complete(instances[k].path[Len(instances[k].path)])
    /\ instances' =
            [instances EXCEPT ![k].path = SubSeq(@, 1, Len(@) - 1)]
    /\ UNCHANGED <<trackers, vars, wvars>>

\* The callbacks of the two instances, interleaved in any order
NextConcurrent ==
    \E k \in Instances :
        \/ ConcurrentProgram(k)
        \/ ConcurrentImportDeclaration(k)
        \/ ConcurrentCallExpression(k)
        \/ ConcurrentNewExpression(k)
        \/ ConcurrentExpressionStatement(k)
        \/ ConcurrentLeave(k)

SpecConcurrent ==
    InitConcurrent /\ [][NextConcurrent]_<<vars, cvars, wvars>>

\* ------------------------------------------- one visitor invocation
\* The visitor is given a call at the end of any path of member accesses,
\* calls, statements, blocks and arrow functions below Program
InitWalk ==
    /\ \E k \in 0..MaxWalkDepth :
        \E above \in
            [1..k ->
                {Plain(t, "body") :
                    t \in {"ReturnStatement", "BlockStatement",
                           "ExpressionStatement"}}
                \cup {Plain(t, r) :
                        t \in {"ArrowFunctionExpression", "CallExpression"},
                        r \in {"body", "arguments"}}
                \cup {Shape("MemberExpression", r, Ident(m), NoImport) :
                        m \in {Str_unwrapOr, Str_foo},
                        r \in {"callee", "object"}}] :
        \E role \in {"body", "arguments", "object"} :
            walkPath =
                <<Node(1, "Program", "root", NoSub, NoImport, NoExpr)>>
                \o [j \in 1..k |->
                        Node(j + 1, above[j].type, above[j].role,
                             above[j].sub, NoImport, NoExpr)]
                \o <<Node(k + 2, "CallExpression", role, Ident(Str_ok),
                          NoImport, NoExpr)>>
    /\ pc = "isInReturnContext"
    /\ current = Parent(Len(walkPath))
    /\ check = 0
    /\ outcome = "none"
    /\ steps = 0
    /\ instances = [k \in Instances |-> Idle]
    /\ trackers = [t \in Instances |-> {}]
    /\ family = "names"
    /\ path = <<>>
    /\ registry = {}
    /\ diags = <<>>
    /\ nextId = 1
    /\ imported = {}
    /\ leftover = {}
    /\ passed = {}

\* One iteration of `while (current)` in isInReturnContext; when the loop
\* ends without a return the visitor goes on to isImmediatelyHandled
ReturnStep ==
    /\ pc = "isInReturnContext"
    /\ steps' = steps + 1
    /\ IF current = 0
       THEN /\ pc' = "isImmediatelyHandled"
            /\ current' = Parent(Len(walkPath))
            /\ UNCHANGED <<check, outcome>>
       ELSE IF walkPath[current].type = "ReturnStatement"
       THEN /\ pc' = "done"
            /\ outcome' = "delegated"
            /\ UNCHANGED <<current, check>>
       ELSE IF walkPath[current].type = "ArrowFunctionExpression"
       THEN /\ pc' = "checkNode"
            /\ check' = Len(walkPath)
            /\ UNCHANGED <<current, outcome>>
       ELSE IF walkPath[current].type \in BoundaryTypes
       THEN /\ pc' = "isImmediatelyHandled"
            /\ current' = Parent(Len(walkPath))
            /\ UNCHANGED <<check, outcome>>
       ELSE /\ current' = Parent(current)
            /\ UNCHANGED <<pc, check, outcome>>
    /\ UNCHANGED <<walkPath, vars, cvars>>

\* Variant of BodyStep in which checkNode does not move
BodyStepStays ==
    /\ pc = "checkNode"
    /\ UNCHANGED <<wvars, vars, cvars>>

\* One iteration of `while (checkNode && checkNode !== bodyNode)` at the
\* arrow function walkPath[current]; when the loop ends, the test of the
\* body itself and the rest of the outer iteration
BodyStep ==
    /\ pc = "checkNode"
    /\ steps' = steps + 1
    /\ LET body == ArrowBody(walkPath, current)
       IN  IF check # 0 /\ check \notin body
           THEN IF Parent(check) \in body
                THEN /\ pc' = "done"
                     /\ outcome' = "delegated"
                     /\ UNCHANGED <<current, check>>
                ELSE /\ check' = Parent(check)
                     /\ UNCHANGED <<pc, current, outcome>>
           ELSE IF Len(walkPath) \in body
                THEN /\ pc' = "done"
                     /\ outcome' = "delegated"
                     /\ UNCHANGED <<current, check>>
                ELSE /\ pc' = "isInReturnContext"
                     /\ current' = Parent(current)
                     /\ UNCHANGED <<check, outcome>>
    /\ UNCHANGED <<walkPath, vars, cvars>>

\* One iteration of `while (current)` in isImmediatelyHandled; when the loop
\* ends without a return the visitor classifies the call and returns
HandledStep ==
    /\ pc = "isImmediatelyHandled"
    /\ steps' = steps + 1
    /\ IF current = 0
       THEN /\ pc' = "done"
            /\ outcome' = "classified"
            /\ UNCHANGED <<current, check>>
       ELSE IF walkPath[current].type = "MemberExpression"
       THEN IF /\ getMethodName(walkPath[current]) # NoName
               /\ getMethodName(walkPath[current]) \in HANDLED_METHODS
               /\ Parent(current) # 0
               /\ walkPath[Parent(current)].type = "CallExpression"
               /\ walkPath[current].role = "callee"
            THEN /\ pc' = "done"
                 /\ outcome' = "handled"
                 /\ UNCHANGED <<current, check>>
            ELSE /\ current' = Parent(current)
                 /\ UNCHANGED <<pc, check, outcome>>
       ELSE IF walkPath[current].type = "CallExpression"
       THEN /\ current' = Parent(current)
            /\ UNCHANGED <<pc, check, outcome>>
       ELSE /\ pc' = "done"
            /\ outcome' = "classified"
            /\ UNCHANGED <<current, check>>
    /\ UNCHANGED <<walkPath, vars, cvars>>

NextWalk == ReturnStep \/ BodyStep \/ HandledStep

\* The visitor runs synchronously: an iteration that can be taken is taken
SpecWalk ==
    InitWalk /\ [][NextWalk]_<<vars, cvars, wvars>>
    /\ WF_<<vars, cvars, wvars>>(NextWalk)

\* =================================================================== claims
\* Number of diagnostics anchored at the node path[i]
Anchored(i) ==
    Cardinality({k \in DOMAIN diags : diags[k].node = path[i].id})

CallLike(i) == path[i].type \in {"CallExpression", "NewExpression"}

IdentifierCallee(i) == path[i].sub.type = "Identifier"

\* The node path[i] is the expression of an expression statement
BareStatement(i) == i > 1 /\ path[i - 1].type = "ExpressionStatement"

\* The names of the units that contain "result" in some letter case
ResultNames ==
    {Str_getResult, Str_RESULTS, Str_CheckResult, Str_checkResults,
     Str_HASRESULT}
    \cup ExcludedNames

\* new Ok(...) or new Err(...)
ConstructorCall(i) ==
    /\ path[i].type = "NewExpression"
    /\ IdentifierCallee(i)
    /\ path[i].sub.name \in {Str_Ok, Str_Err}

\* ok(...), err(...), okAsync(...) or errAsync(...) with the name bound
BoundFactoryCall(i) ==
    /\ path[i].type = "CallExpression"
    /\ IdentifierCallee(i)
    /\ path[i].sub.name \in {Str_ok, Str_err, Str_okAsync, Str_errAsync}
    /\ path[i].sub.name \in registry

\* a call of a name that contains "result" and is not excluded
HeuristicCall(i) ==
    /\ path[i].type = "CallExpression"
    /\ IdentifierCallee(i)
    /\ path[i].sub.name \in ResultNames \ ExcludedNames

\* C1: a call-like node on the path carries a diagnostic exactly when it is
\* neither delegated nor immediately handled and is a constructor call of Ok
\* or Err, a bound factory call or a heuristic call; then it carries one.  No
\* other node carries a diagnostic.
C1_ReportedIffProducing ==
    \A i \in DOMAIN path :
        IF CallLike(i)
        THEN Anchored(i) =
                IF /\ ~isInReturnContext(path, i)
                   /\ ~isImmediatelyHandled(path, i)
                   /\ (ConstructorCall(i) \/ BoundFactoryCall(i)
                       \/ HeuristicCall(i))
                THEN 1 ELSE 0
        ELSE Anchored(i) = 0

\* C1 witness: a bound factory call that is the argument of a handled call
\* inside a statement is reported, the enclosing call is not
C1_Witness ==
    \E i \in DOMAIN path :
        /\ BoundFactoryCall(i)
        /\ Anchored(i) = 1
        /\ ~BareStatement(i)
        /\ \E j \in 1..(i - 1) : CallLike(j) /\ Anchored(j) = 0

\* C2: a bound factory call that is the expression of an expression
\* statement carries exactly one diagnostic.
C2_BareFactoryCallReportedOnce ==
    \A i \in DOMAIN path :
        (BareStatement(i) /\ BoundFactoryCall(i)) => Anchored(i) = 1

\* C2 witness: errAsync(...) as a statement, bound, reported once
C2_Witness ==
    \E i \in DOMAIN path :
        /\ BareStatement(i)
        /\ BoundFactoryCall(i)
        /\ path[i].sub.name = Str_errAsync
        /\ Anchored(i) = 1

\* C3: new Ok(...) or new Err(...) as the expression of an expression
\* statement carries exactly one diagnostic, whatever the registry holds.
C3_BareConstructorReportedOnce ==
    \A i \in DOMAIN path :
        (BareStatement(i) /\ ConstructorCall(i)) => Anchored(i) = 1

\* C3 witness: new Err(...) reported in a unit whose registry binds other
\* names only
C3_Witness ==
    \E i \in DOMAIN path :
        /\ BareStatement(i)
        /\ ConstructorCall(i)
        /\ path[i].sub.name = Str_Err
        /\ registry # {}
        /\ Str_Err \notin registry
        /\ Anchored(i) = 1

\* Any of the three producing constructs
Producing(i) == ConstructorCall(i) \/ BoundFactoryCall(i) \/ HeuristicCall(i)

Handlers == {Str_match, Str_unwrapOr, Str_unsafeUnwrap}

Transformers ==
    {Str_map, Str_mapErr, Str_andThen, Str_orElse, Str_asyncAndThen,
     Str_asyncMap, Str_isOk, Str_isErr}

\* path[i] is the receiver of an invoked method named in `names`
Receiver(i, names) ==
    /\ i >= 3
    /\ path[i].role = "object"
    /\ path[i - 1].type = "MemberExpression"
    /\ path[i - 1].sub.type = "Identifier"
    /\ path[i - 1].sub.name \in names
    /\ path[i - 1].role = "callee"
    /\ path[i - 2].type = "CallExpression"

\* path[i] is the receiver of a chain of invoked transforming methods that
\* ends in an invoked handling method
RECURSIVE HandledChain(_)
HandledChain(i) ==
    \/ Receiver(i, Handlers)
    \/ Receiver(i, Transformers) /\ HandledChain(i - 2)

\* The call of the handling method that ends the chain of path[i]
RECURSIVE ChainEnd(_)
ChainEnd(i) == IF Receiver(i, Handlers) THEN i - 2 ELSE ChainEnd(i - 2)

\* C4: a bound factory call or a new Ok/new Err that is the receiver of a
\* chain of transforming-method calls ending in an invoked handling method
\* carries no diagnostic, and neither does any call of the chain.
C4_HandledChainNotReported ==
    \A i \in DOMAIN path :
        ((ConstructorCall(i) \/ BoundFactoryCall(i)) /\ HandledChain(i)) =>
            \A j \in ChainEnd(i)..i : Anchored(j) = 0

\* C4 witness: a bound factory call behind one transforming call and a
\* handling call, visited without a report
C4_Witness ==
    \E i \in DOMAIN path :
        /\ BoundFactoryCall(i)
        /\ Receiver(i, Transformers)
        /\ HandledChain(i)
        /\ ChainEnd(i) = i - 4
        /\ Anchored(i) = 0

\* path[j] is a step of a method chain above its child: a member access of
\* its object, or a call of its callee
ChainStep(j) ==
    \/ path[j].type = "MemberExpression" /\ path[j + 1].role = "object"
    \/ path[j].type = "CallExpression" /\ path[j + 1].role = "callee"

\* path[j] is a handling method that is invoked
InvokedHandler(j) ==
    /\ path[j].type = "MemberExpression"
    /\ path[j].sub.type = "Identifier"
    /\ path[j].sub.name \in Handlers
    /\ path[j].role = "callee"
    /\ path[j - 1].type = "CallExpression"

\* path[r..i] is a method chain that is an expression statement, starts at
\* the producing node path[i] and invokes no handling method
UnhandledStatementChain(r, i) ==
    /\ 1 < r
    /\ r < i
    /\ path[r - 1].type = "ExpressionStatement"
    /\ \A j \in r..(i - 1) : ChainStep(j) /\ ~InvokedHandler(j)
    /\ Producing(i)

\* C5: a method chain that is an expression statement, starts at a producing
\* node and invokes no handling method carries exactly one diagnostic, at the
\* producing node and at no call of the chain.
C5_UnhandledChainReportedAtProducer ==
    \A r \in DOMAIN path : \A i \in DOMAIN path :
        UnhandledStatementChain(r, i) =>
            /\ Anchored(i) = 1
            /\ \A j \in r..(i - 1) : Anchored(j) = 0

\* C5 witness: producer.map(...).isOk() as a statement, reported at the
\* producer only
C5_Witness ==
    \E r \in DOMAIN path : \E i \in DOMAIN path :
        /\ UnhandledStatementChain(r, i)
        /\ i = r + 4
        /\ path[r + 1].sub.name = Str_isOk
        /\ path[r + 3].sub.name = Str_map
        /\ Anchored(i) = 1
        /\ Anchored(r) = 0

\* path[a] is a return statement, or an arrow function whose body is an
\* expression holding path[i], and no block or function lies between
DelegatedAt(a, i) ==
    /\ a < i
    /\ \/ path[a].type = "ReturnStatement"
       \/ /\ path[a].type = "ArrowFunctionExpression"
          /\ path[a + 1].role = "body"
          /\ path[a + 1].type # "BlockStatement"
    /\ \A j \in (a + 1)..(i - 1) :
            path[j].type \notin
                {"BlockStatement", "FunctionDeclaration", "FunctionExpression"}

\* C6: a producing node below a return statement or inside the expression
\* body of an arrow function, with no block or function in between, carries no
\* diagnostic, however many expressions wrap it.
C6_DelegatedNotReported ==
    \A i \in DOMAIN path :
        (Producing(i) /\ \E a \in DOMAIN path : DelegatedAt(a, i)) =>
            Anchored(i) = 0

\* C6 witness: a bound factory call wrapped in another expression inside the
\* expression body of an arrow function
C6_Witness ==
    \E i \in DOMAIN path : \E a \in DOMAIN path :
        /\ BoundFactoryCall(i)
        /\ path[a].type = "ArrowFunctionExpression"
        /\ DelegatedAt(a, i)
        /\ i >= a + 2
        /\ Anchored(i) = 0

\* C7: a producing node that is an expression statement in a block or in the
\* body of an if statement, a while loop or a for loop carries exactly one
\* diagnostic, whatever else the enclosing function holds.
C7_StatementInBlockReported ==
    \A i \in DOMAIN path :
        (/\ Producing(i)
         /\ BareStatement(i)
         /\ i > 2
         /\ path[i - 2].type \in
                {"BlockStatement", "IfStatement"} \cup LoopTypes) =>
            Anchored(i) = 1

\* C7 witness: the statement follows a return statement in the block of a
\* function declaration and is reported
C7_Witness ==
    \E i \in DOMAIN path :
        /\ Producing(i)
        /\ BareStatement(i)
        /\ i > 3
        /\ path[i - 2].type = "BlockStatement"
        /\ path[i - 3].type = "FunctionDeclaration"
        /\ path[i - 2].returns
        /\ Anchored(i) = 1

\* C8: a call of an identifier that is neither delegated nor immediately
\* handled carries one diagnostic when the name contains "result" in any
\* letter case and is not excluded; a call of an excluded name, or of a name
\* without "result" that is no bound factory name, carries none.
C8_HeuristicByName ==
    \A i \in DOMAIN path :
        (path[i].type = "CallExpression" /\ IdentifierCallee(i)) =>
            LET name == path[i].sub.name
            IN  /\ (/\ name \in ResultNames \ ExcludedNames
                    /\ ~isInReturnContext(path, i)
                    /\ ~isImmediatelyHandled(path, i)) => Anchored(i) = 1
                /\ name \in ExcludedNames => Anchored(i) = 0
                /\ (name \notin ResultNames /\ ~BoundFactoryCall(i)) =>
                        Anchored(i) = 0

\* C8 witness: RESULTS() reported in a unit that imports nothing
C8_Witness ==
    \E i \in DOMAIN path :
        /\ path[i].type = "CallExpression"
        /\ IdentifierCallee(i)
        /\ path[i].sub.name = Str_RESULTS
        /\ registry = {}
        /\ Anchored(i) = 1

\* The local names of the specifiers of the import declaration path[i]
Locals(i) ==
    {path[i].imp.specifiers[k].local : k \in DOMAIN path[i].imp.specifiers}

\* C9 as stated: a call of the bound alias success carries one diagnostic and
\* a call of the unbound name ok carries none.
C9_AliasCallReported ==
    \A i \in DOMAIN path :
        (/\ path[i].type = "CallExpression"
         /\ IdentifierCallee(i)
         /\ BareStatement(i)) =>
            /\ (path[i].sub.name = Str_success /\ Str_success \in registry) =>
                    Anchored(i) = 1
            /\ (path[i].sub.name = Str_ok /\ Str_ok \notin registry) =>
                    Anchored(i) = 0

\* C9 amended: an import from "neverthrow" binds the local names of its
\* specifiers (the alias, not the imported name); a call of the alias success
\* carries no diagnostic, bound or not, and neither does a call of the
\* unbound name ok.
C9_AliasBoundNotReported ==
    /\ \A i \in DOMAIN path :
            (/\ path[i].type = "ImportDeclaration"
             /\ path[i].imp.source = Str_neverthrow) =>
                /\ Locals(i) \subseteq registry
                /\ path[i].id = 2 => registry = Locals(i)
    /\ \A i \in DOMAIN path :
            (path[i].type = "CallExpression" /\ IdentifierCallee(i)) =>
                /\ path[i].sub.name = Str_success => Anchored(i) = 0
                /\ (path[i].sub.name = Str_ok /\ Str_ok \notin registry) =>
                        Anchored(i) = 0

\* C9 witness: success(...) as a statement after
\* import { ok as success, err as failure }
C9_Witness ==
    \E i \in DOMAIN path :
        /\ path[i].type = "CallExpression"
        /\ BareStatement(i)
        /\ path[i].sub.name = Str_success
        /\ registry = {Str_success, Str_failure}
        /\ Anchored(i) = 0

\* C10: a call of a bound local name that is no factory name and a new of a
\* bound local name that is neither Ok nor Err carry no diagnostic, while a
\* bound factory call that is an expression statement carries one.
C10_LiteralNamesOnly ==
    \A i \in DOMAIN path :
        /\ (/\ path[i].type = "CallExpression"
            /\ IdentifierCallee(i)
            /\ path[i].sub.name \in registry
            /\ path[i].sub.name \notin FactoryNames \cup ResultNames) =>
                Anchored(i) = 0
        /\ (/\ path[i].type = "NewExpression"
            /\ IdentifierCallee(i)
            /\ path[i].sub.name \in registry
            /\ path[i].sub.name \notin {Str_Ok, Str_Err}) => Anchored(i) = 0
        /\ (BareStatement(i) /\ BoundFactoryCall(i)) => Anchored(i) = 1

\* C10 witness: new ErrorClass(...) with ErrorClass and ok bound, unreported,
\* after a factory call of the same unit was reported
C10_Witness ==
    \E i \in DOMAIN path :
        /\ path[i].type = "NewExpression"
        /\ BareStatement(i)
        /\ path[i].sub.name = Str_ErrorClass
        /\ {Str_ErrorClass, Str_ok} \subseteq registry
        /\ Anchored(i) = 0
        /\ Len(diags) = 1

\* C11: a call whose callee is a member access carries no diagnostic, whatever
\* the object and the property are and whatever the registry holds.
C11_MemberCalleeNotReported ==
    \A i \in DOMAIN path :
        (path[i].type = "CallExpression"
         /\ path[i].sub.type = "MemberExpression") => Anchored(i) = 0

\* C11 witness: neverthrow.ok(...) as a statement after
\* import * as neverthrow, unreported
C11_Witness ==
    \E i \in DOMAIN path :
        /\ i > 1
        /\ path[i].type = "MemberExpression"
        /\ path[i].role = "callee"
        /\ path[i].sub = Ident(Str_ok)
        /\ path[i].expr = Object(Str_neverthrow)
        /\ Str_neverthrow \in registry
        /\ path[i - 1].type = "CallExpression"
        /\ BareStatement(i - 1)
        /\ Anchored(i - 1) = 0

\* An import declaration of the unit entered so far binds `name` from
\* the module `source`
ImportedFrom(source, name) ==
    [source |-> source, local |-> name] \in imported

\* C12: a call of ok, err, okAsync or errAsync whose name no import from
\* "neverthrow" of the unit has bound so far carries no diagnostic.
C12_UnboundFactoryCallNotReported ==
    \A i \in DOMAIN path :
        (/\ path[i].type = "CallExpression"
         /\ IdentifierCallee(i)
         /\ path[i].sub.name \in FactoryNames
         /\ ~ImportedFrom(Str_neverthrow, path[i].sub.name)) =>
            Anchored(i) = 0

\* C12 witness: ok(...) as a statement after import { ok } from another
\* module, unreported
C12_Witness ==
    \E i \in DOMAIN path :
        /\ path[i].type = "CallExpression"
        /\ BareStatement(i)
        /\ path[i].sub = Ident(Str_ok)
        /\ ImportedFrom(Str_otherModule, Str_ok)
        /\ ~ImportedFrom(Str_neverthrow, Str_ok)
        /\ Anchored(i) = 0

\* The traversal has entered the Program node and nothing else of the unit
AtUnitStart == Len(path) = 1 /\ path[1].last = "none"

\* C13: in every unit of a sequence of units the tracker holds exactly the
\* names the unit's own imports from "neverthrow" have bound so far; it is
\* empty, and so are the diagnostics, when the first node of the unit is about
\* to be visited, whatever the units before left in the tracker.
C13_RegistryOfThisUnitOnly ==
    /\ registry = {b.local : b \in {x \in imported : x.source = Str_neverthrow}}
    /\ AtUnitStart => (registry = {} /\ diags = <<>>)

\* C13 witness: a unit starts with an empty tracker after units that left
\* ok and Ok in it
C13_Witness ==
    /\ AtUnitStart
    /\ {Str_ok, Str_Ok} \subseteq leftover
    /\ registry = {}

\* The node path[i] belongs to a top-level statement of the unit
InTopLevelStatement(i) ==
    /\ i >= 3
    /\ path[2].type = "ExpressionStatement"
    /\ \A j \in 3..(i - 1) : ChainStep(j)

\* path[i] is the producing node of a top-level statement that handles
\* nothing: the statement itself, or the start of its chain
UnhandledTopLevelProducer(i) ==
    /\ InTopLevelStatement(i)
    /\ Producing(i)
    /\ \A j \in 3..(i - 1) : ~InvokedHandler(j)

\* The diagnostics are in document order: the node ids grow
InDocumentOrder ==
    \A k \in DOMAIN diags : \A l \in DOMAIN diags :
        k < l => diags[k].node < diags[l].node

\* The traversal enters a node of the same unit
Enters == Len(path') = Len(path) + 1 /\ Len(path) >= 1

\* C14: in a unit of top-level statements every step that enters the producing
\* node of a statement that handles nothing appends one diagnostic anchored at
\* that node, every other step into a top-level statement leaves the
\* diagnostics alone, and the diagnostics stay in document order; so their
\* number is the number of unhandled producing nodes.
C14_OneDiagnosticPerUnhandledStatement ==
    [][/\ (Enters /\ InTopLevelStatement(Len(path))') =>
            IF UnhandledTopLevelProducer(Len(path))'
            THEN /\ Len(diags') = Len(diags) + 1
                 /\ SubSeq(diags', 1, Len(diags)) = diags
                 /\ diags'[Len(diags')].node = path'[Len(path')].id
            ELSE diags' = diags
       /\ InDocumentOrder']_vars

\* C14 witness: after the import of the factory and constructor names two
\* statements have each been reported at their producing node, in order
C14_Witness ==
    /\ Len(path) = 3
    /\ UnhandledTopLevelProducer(3)
    /\ {Str_ok, Str_err, Str_okAsync, Str_errAsync, Str_Ok, Str_Err}
            \subseteq registry
    /\ Len(diags) = 2
    /\ diags[1].node = 4
    /\ diags[2].node = path[3].id

\* None of the four factory names satisfies the name heuristic
FactoryNamesNotHeuristic ==
    \A name \in FactoryNames : ~HeuristicReport(Ident(name))

\* C15: no node is the anchor of two diagnostics, an expression statement is
\* never an anchor, and no callee satisfies both reports of the
\* CallExpression visitor.
C15_AtMostOnePerNode ==
    /\ \A k \in DOMAIN diags : \A l \in DOMAIN diags :
            k # l => diags[k].node # diags[l].node
    /\ \A i \in DOMAIN path :
            /\ path[i].type = "ExpressionStatement" => Anchored(i) = 0
            /\ path[i].type = "CallExpression" =>
                    ~(FactoryReport(registry, path[i].sub)
                      /\ HeuristicReport(path[i].sub))
    /\ FactoryNamesNotHeuristic

\* C15 witness: a bound factory call that is an expression statement, met by
\* the ExpressionStatement visitor and by the CallExpression visitor, carries
\* one diagnostic, the second of the unit
C15_Witness ==
    \E i \in DOMAIN path :
        /\ BareStatement(i)
        /\ BoundFactoryCall(i)
        /\ Anchored(i) = 1
        /\ Len(diags) = 2
        /\ diags[2].node = path[i].id

\* C16: every diagnostic carries the message
\* "Result must be handled with either match, unwrapOr, or _unsafeUnwrap".
C16_FixedMessage ==
    \A k \in DOMAIN diags :
        diags[k].message =
            "Result must be handled with either match, unwrapOr, or _unsafeUnwrap"

\* C16 witness: a heuristic call is reported after a node of another kind,
\* both with the message
C16_Witness ==
    \E i \in DOMAIN path :
        /\ HeuristicCall(i)
        /\ Len(diags) = 2
        /\ diags[2].node = path[i].id
        /\ diags[1].message = diags[2].message
        /\ diags[2].message =
            "Result must be handled with either match, unwrapOr, or _unsafeUnwrap"

\* The names calls, constructions and imports of the units use
KnownNames ==
    NamesFamily.callees \cup NamesFamily.constructed
    \cup {b.local : b \in UNION {Bindings(i) : i \in NamesFamily.imports}}

\* C17: when the traversal enters an import declaration, the tracker
\* afterwards is the tracker before plus the local name of every specifier if
\* the source is "neverthrow", and the tracker before otherwise; entering any
\* other node of the unit leaves it alone, and so does trackImport applied to
\* any node that is no import declaration; isNeverthrowImport is membership.
C17_TrackImportFrame ==
    [][/\ Enters =>
            LET n == path'[Len(path')]
            IN  registry' =
                    IF n.type = "ImportDeclaration"
                       /\ n.imp.source = Str_neverthrow
                    THEN registry \cup Locals(Len(path))'
                    ELSE registry
       /\ \A i \in DOMAIN path' :
            path'[i].type # "ImportDeclaration" =>
                trackImport(registry', path'[i]) = registry'
       /\ \A name \in KnownNames :
            isNeverthrowImport(registry', name) <=> name \in registry']_vars

\* C17 witness: import { ok, Err as ErrorClass } entered after
\* import * as neverthrow: the tracker holds the three local names
C17_Witness ==
    /\ Len(path) = 2
    /\ path[2].type = "ImportDeclaration"
    /\ path[2].imp = MixedImport
    /\ registry = {Str_neverthrow, Str_ok, Str_ErrorClass}

\* C18: a producing node that is not delegated and whose parent is neither a
\* member access nor a call carries exactly one diagnostic, whatever its
\* farther ancestors are.
C18_OtherParentReported ==
    \A i \in DOMAIN path :
        (/\ i > 1
         /\ Producing(i)
         /\ ~\E a \in DOMAIN path : DelegatedAt(a, i)
         /\ path[i - 1].type \notin {"MemberExpression", "CallExpression"}) =>
            Anchored(i) = 1

\* C18 witness: a producing node that is a property value of an object
\* literal on which unwrapOr is invoked is reported
C18_Witness ==
    \E i \in DOMAIN path :
        /\ i > 4
        /\ Producing(i)
        /\ path[i - 1].type = "Property"
        /\ path[i - 2].type = "ObjectExpression"
        /\ InvokedHandler(i - 3)
        /\ Anchored(i) = 1

\* path[i] is an argument of a call
ArgumentOfCall(i) ==
    /\ i > 1
    /\ path[i].role = "arguments"
    /\ path[i - 1].type = "CallExpression"

\* C19: a producing node that is not delegated and is an argument of a call
\* carries exactly one diagnostic, also when a handling method is invoked on
\* the result of the enclosing call; a producing node that is the receiver of
\* a handled chain carries none, also when the chain is an argument.
C19_ArgumentReportedUnlessHandledItself ==
    \A i \in DOMAIN path :
        /\ (/\ Producing(i)
            /\ ArgumentOfCall(i)
            /\ ~\E a \in DOMAIN path : DelegatedAt(a, i)) => Anchored(i) = 1
        /\ (/\ Producing(i)
            /\ HandledChain(i)
            /\ ArgumentOfCall(ChainEnd(i))) => Anchored(i) = 0

\* C19 witness: a producing node that is an argument of a call on whose
\* result unwrapOr is invoked has been visited and carries no diagnostic
C19_Witness ==
    \E i \in DOMAIN path :
        /\ i > 3
        /\ Producing(i)
        /\ ArgumentOfCall(i)
        /\ ~\E a \in DOMAIN path : DelegatedAt(a, i)
        /\ path[i - 1].role = "object"
        /\ InvokedHandler(i - 2)
        /\ Anchored(i) = 0

\* The names the imports of a unit have bound from "neverthrow"
OwnNames(bindings) ==
    {b.local : b \in {x \in bindings : x.source = Str_neverthrow}}

\* The diagnostics the visitor of the node p[Len(p)] leaves
VisitorOf(p, reg, d) ==
    CASE p[Len(p)].type = "CallExpression" -> CallExpressionVisitor(p, reg, d)
      [] p[Len(p)].type = "NewExpression" -> NewExpressionVisitor(p, reg, d)
      [] p[Len(p)].type = "ExpressionStatement" ->
            ExpressionStatementVisitor(p, reg, d)
      [] OTHER -> d

\* A step of the analysis of a unit on its own, from u to v: the tracker
\* holds the names the unit's own imports have bound
AloneStep(u, v) ==
    \/ /\ u.path = <<>>
       /\ v = [path |-> <<Node(1, "Program", "root", NoSub, NoImport, NoExpr)>>,
               diags |-> <<>>, nextId |-> 2, imported |-> {}]
    \/ /\ u.path # <<>>
       /\ Complete(u.path[Len(u.path)])
       /\ v = [u EXCEPT !.path = SubSeq(@, 1, Len(@) - 1)]
    \/ /\ CanEnterUnit(u)
       /\ \E c \in Children(PairFamily, u.path) :
            /\ Fits(PairFamily, u.path, c)
            /\ v = Entered(u, c,
                        VisitorOf(Push(u.path, c, u.nextId),
                                  OwnNames(Entered(u, c, u.diags).imported),
                                  u.diags))

\* C20: with the callbacks of two instances interleaved in any order, every
\* step of an instance is a step of the analysis of its unit on its own, so
\* its diagnostics are the ones the unit yields alone.
C20_InstancesIndependent ==
    [][\A k \in Instances :
            instances'[k] # instances[k] =>
                AloneStep(instances[k], instances'[k])]_cvars

\* C20 witness: instance 1 has visited ok(...) in a unit without imports and
\* reported nothing, while instance 2 has bound ok and reported its own call
C20_Witness ==
    /\ Len(instances[1].path) = 3
    /\ instances[1].path[3].type = "CallExpression"
    /\ instances[1].path[3].sub = Ident(Str_ok)
    /\ instances[1].imported = {}
    /\ instances[1].diags = <<>>
    /\ Str_ok \in trackers[TrackerOf(2)]
    /\ Len(instances[2].diags) = 1

\* path[r..i-1] are the member accesses and calls the chain walk of path[i]
\* climbs through before it stops below path[r-1]
WalkedThrough(r, i) ==
    /\ 1 < r
    /\ r < i
    /\ \A j \in r..(i - 1) :
            path[j].type \in {"MemberExpression", "CallExpression"}
    /\ path[r - 1].type \notin {"MemberExpression", "CallExpression"}

\* path[j] is a member access with a handling name that is not invoked
ReferencedHandler(j) ==
    /\ path[j].type = "MemberExpression"
    /\ path[j].sub.type = "Identifier"
    /\ path[j].sub.name \in Handlers
    /\ ~InvokedHandler(j)

\* C21: a producing node that is not delegated, with a handling method that
\* is referenced but not invoked among the member accesses and calls above it
\* and no invoked handling method among them, carries exactly one diagnostic.
C21_ReferencedHandlerDoesNotDischarge ==
    \A r \in DOMAIN path : \A i \in DOMAIN path :
        (/\ Producing(i)
         /\ WalkedThrough(r, i)
         /\ \E j \in r..(i - 1) : ReferencedHandler(j)
         /\ \A j \in r..(i - 1) : ~InvokedHandler(j)
         /\ ~\E a \in DOMAIN path : DelegatedAt(a, i)) =>
            Anchored(i) = 1

\* C21 witness: the handling method read off a bound factory call is passed
\* to a call as a value, and the factory call is reported
C21_Witness ==
    \E r \in DOMAIN path : \E i \in DOMAIN path :
        /\ BoundFactoryCall(i)
        /\ WalkedThrough(r, i)
        /\ i = r + 2
        /\ ReferencedHandler(r + 1)
        /\ path[r + 1].role = "arguments"
        /\ path[r].type = "CallExpression"
        /\ Anchored(i) = 1

\* path[i] is a statement in the block that is the body of the function
\* expression or arrow function path[i - 3]
StatementOfInnerFunction(i) ==
    /\ i > 4
    /\ BareStatement(i)
    /\ path[i - 2].type = "BlockStatement"
    /\ path[i - 2].role = "body"
    /\ path[i - 3].type \in {"FunctionExpression", "ArrowFunctionExpression"}

\* C22: a producing node that is a statement in the block body of a function
\* expression or arrow function carries exactly one diagnostic also when that
\* function lies below a return statement or in the expression body of an
\* arrow function.
C22_DelegationStopsAtBoundary ==
    \A i \in DOMAIN path :
        (/\ Producing(i)
         /\ StatementOfInnerFunction(i)
         /\ \E a \in DOMAIN path : DelegatedAt(a, i - 3)) =>
            Anchored(i) = 1

\* C22 witness: a statement in the block of an arrow function that is the
\* expression body of another arrow function, reported
C22_Witness ==
    \E i \in DOMAIN path :
        /\ Producing(i)
        /\ StatementOfInnerFunction(i)
        /\ path[i - 3].type = "ArrowFunctionExpression"
        /\ path[i - 3].role = "body"
        /\ path[i - 4].type = "ArrowFunctionExpression"
        /\ DelegatedAt(i - 4, i - 3)
        /\ Anchored(i) = 1

\* C23: a heuristic call that is delegated, or is the receiver of a chain
\* ending in an invoked handling method, carries no diagnostic, as a bound
\* factory call or a constructor call in that position carries none.
C23_HeuristicCallExempted ==
    \A i \in DOMAIN path :
        (/\ CallLike(i)
         /\ Producing(i)
         /\ (HandledChain(i) \/ \E a \in DOMAIN path : DelegatedAt(a, i))) =>
            Anchored(i) = 0

\* C23 witness: getResult().unwrapOr(...) as a statement, outside any
\* function, visited without a report
C23_Witness ==
    \E i \in DOMAIN path :
        /\ HeuristicCall(i)
        /\ path[i].sub.name = Str_getResult
        /\ Receiver(i, {Str_unwrapOr})
        /\ BareStatement(i - 2)
        /\ i = 5
        /\ Anchored(i) = 0
        /\ Anchored(i - 2) = 0

\* C24: when the traversal enters a factory-named call that is an expression
\* statement, one diagnostic is appended if the registry holds the name at
\* that moment and none otherwise; when it enters an import declaration that
\* binds the name, the diagnostics stay as they are.
C24_ReportedByRegistryAtVisit ==
    [][Enters =>
        LET n == path'[Len(path')]
            parent == path'[Len(path') - 1]
        IN  /\ (/\ n.type = "CallExpression"
                 /\ n.sub.type = "Identifier"
                 /\ n.sub.name \in FactoryNames
                 /\ parent.type = "ExpressionStatement") =>
                    IF n.sub.name \in registry
                    THEN /\ Len(diags') = Len(diags) + 1
                         /\ diags'[Len(diags')].node = n.id
                    ELSE diags' = diags
            /\ n.type = "ImportDeclaration" => diags' = diags]_vars

\* C24 witness: ok(...) was visited before the import that binds ok and left
\* no diagnostic; the ok(...) visited after it carries the only one
C24_Witness ==
    \E i \in DOMAIN path :
        /\ Str_ok \in passed
        /\ BoundFactoryCall(i)
        /\ BareStatement(i)
        /\ path[i].sub.name = Str_ok
        /\ Anchored(i) = 1
        /\ Len(diags) = 1

\* C25: a producing node below an invoked handling method, with nothing but
\* steps of a method chain in between, carries no diagnostic, whatever the
\* names of these steps are and whether or not they are invoked.
C25_IntermediateStepsUnchecked ==
    \A h \in DOMAIN path : \A i \in DOMAIN path :
        (/\ 1 < h
         /\ h < i
         /\ InvokedHandler(h)
         /\ \A j \in h..(i - 1) : ChainStep(j)
         /\ Producing(i)) =>
            Anchored(i) = 0

\* C25 witness: producer.foo().unwrapOr(...), with foo outside the
\* transforming set, visited without a report
C25_Witness ==
    \E h \in DOMAIN path : \E i \in DOMAIN path :
        /\ 1 < h
        /\ i = h + 3
        /\ InvokedHandler(h)
        /\ \A j \in h..(i - 1) : ChainStep(j)
        /\ path[h + 1].type = "CallExpression"
        /\ path[h + 2].sub = Ident(Str_foo)
        /\ BoundFactoryCall(i)
        /\ Anchored(i) = 0

\* The callee names of the units that are not excluded and differ from an
\* excluded name only in letter case, or extend one by a suffix
NearExcluded ==
    {n \in NamesFamily.callees \ ExcludedNames :
        \E e \in ExcludedNames :
            \/ toLowerCase(n) = toLowerCase(e)
            \/ Len(n) > Len(e) /\ SubSeq(n, 1, Len(e)) = e}

\* C26: a call, as an expression statement, of a name that differs from an
\* excluded name only in letter case or by a suffix carries exactly one
\* diagnostic; a call of an excluded name itself carries none.
C26_ExclusionExact ==
    \A i \in DOMAIN path :
        (/\ path[i].type = "CallExpression"
         /\ IdentifierCallee(i)
         /\ BareStatement(i)) =>
            /\ path[i].sub.name \in NearExcluded => Anchored(i) = 1
            /\ path[i].sub.name \in ExcludedNames => Anchored(i) = 0

\* C26 witness: HASRESULT() as a statement, reported; CheckResult and
\* checkResults are the other two names close to an excluded one
C26_Witness ==
    \E i \in DOMAIN path :
        /\ BareStatement(i)
        /\ path[i].type = "CallExpression"
        /\ path[i].sub = Ident(Str_HASRESULT)
        /\ Str_HASRESULT \in NearExcluded
        /\ Str_CheckResult \in NearExcluded
        /\ Str_checkResults \in NearExcluded
        /\ Anchored(i) = 1

\* C27: every invocation of the visitor comes to its end, after no more
\* loop iterations than the depth of the node allows, and leaves as
\* isInReturnContext and isImmediatelyHandled decide.
C27_VisitorTerminates ==
    <>(/\ pc = "done"
       /\ steps <= (Len(walkPath) + 1) * (Len(walkPath) + 2)
       /\ outcome =
            IF isInReturnContext(walkPath, Len(walkPath)) THEN "delegated"
            ELSE IF isImmediatelyHandled(walkPath, Len(walkPath))
            THEN "handled"
            ELSE "classified")

\* C27 witness: the visitor is done below an arrow function whose body lies
\* off the path, after the inner walk went up to the root and both outer
\* walks ran to their ends
C27_Witness ==
    /\ pc = "done"
    /\ outcome = "classified"
    /\ Len(walkPath) = 5
    /\ walkPath[2].type = "ExpressionStatement"
    /\ walkPath[3].type = "ArrowFunctionExpression"
    /\ ArrowBody(walkPath, 3) = {}
    /\ walkPath[4].type = "CallExpression"
    /\ steps > 2 * Len(walkPath)

====
